---- MODULE Spec2Model ----
(***************************************************************************)
(* Real-estate dashboard: the property search flow (quota check, cached   *)
(* provider fetch with retries, usage logging), the usage/quota report,   *)
(* the saved-property store (save, cached list, delete that clears the    *)
(* caches), and the analysis of a property record (financial metrics,     *)
(* market heuristics, score).                                             *)
(*                                                                         *)
(* Text is modelled as a sequence of one-character strings so that the     *)
(* string operations of the code (strip, split, title, upper, lower,      *)
(* replace) are computed and not assumed.  Time is in seconds (UTC).      *)
(***************************************************************************)
EXTENDS Integers, Sequences, FiniteSets, Bags, TLC

\* ------------------------------------------------------------------------
\* Bounds of the model
\* ------------------------------------------------------------------------
\* searches, saves, portfolio visits and deletes, and pauses of the user, in all
MaxEvents == 3

\* ------------------------------------------------------------------------
\* Program constants
\* ------------------------------------------------------------------------
TTL == 7200
max_retries == 3
InitialRetryDelay == 1
Limit == 30

HourSecs == 60 * 60
DaySecs == 24 * HourSecs
MonthSecs == 30 * DaySecs

\* ------------------------------------------------------------------------
\* Python values
\* ------------------------------------------------------------------------
None == <<>>
Some(v) == <<v>>
Truthy(opt) == opt # <<>>

\* ------------------------------------------------------------------------
\* Text helpers (str methods used by the code)
\* ------------------------------------------------------------------------
IsSpace(c) == c = " "

UpperChar(c) ==
    CASE c = "a" -> "A" [] c = "m" -> "M" [] c = "t" -> "T" [] c = "x" -> "X"
      [] OTHER -> c

LowerChar(c) ==
    CASE c = "A" -> "a" [] c = "M" -> "m" [] c = "T" -> "t" [] c = "X" -> "x"
      [] OTHER -> c

IsAlpha(c) == c \in {"a", "m", "t", "x", "A", "M", "T", "X"}

StrUpper(s) == [i \in 1..Len(s) |-> UpperChar(s[i])]

StrLower(s) == [i \in 1..Len(s) |-> LowerChar(s[i])]

\* str.title(): a letter that follows a non-letter is upper-cased, any other
\* letter lower-cased
StrTitle(s) ==
    [i \in 1..Len(s) |->
        IF i = 1 \/ ~IsAlpha(s[i - 1]) THEN UpperChar(s[i]) ELSE LowerChar(s[i])]

\* str.replace(" ", "_")
ReplaceSpace(s) == [i \in 1..Len(s) |-> IF s[i] = " " THEN "_" ELSE s[i]]

RECURSIVE LStrip(_)
LStrip(s) == IF s # <<>> /\ IsSpace(Head(s)) THEN LStrip(Tail(s)) ELSE s

RECURSIVE RStrip(_)
RStrip(s) ==
    IF s # <<>> /\ IsSpace(s[Len(s)]) THEN RStrip(SubSeq(s, 1, Len(s) - 1)) ELSE s

Strip(s) == RStrip(LStrip(s))

\* str.split(','): every comma separates, empty fields are kept
RECURSIVE SplitComma(_, _)
SplitComma(s, cur) ==
    IF s = <<>> THEN <<cur>>
    ELSE IF Head(s) = "," THEN <<cur>> \o SplitComma(Tail(s), <<>>)
    ELSE SplitComma(Tail(s), Append(cur, Head(s)))

\* str.split(): runs of whitespace separate, empty fields are dropped
RECURSIVE SplitWords(_, _)
SplitWords(s, cur) ==
    IF s = <<>> THEN (IF cur = <<>> THEN <<>> ELSE <<cur>>)
    ELSE IF IsSpace(Head(s))
         THEN (IF cur = <<>> THEN <<>> ELSE <<cur>>) \o SplitWords(Tail(s), <<>>)
         ELSE SplitWords(Tail(s), Append(cur, Head(s)))

\* parse_full_address: None, or the dict {address, city, state, zipcode}
parse_full_address(full_address) ==
    LET raw == SplitComma(full_address, <<>>)
        parts == [i \in 1..Len(raw) |-> Strip(raw[i])]
    IN  IF Len(parts) < 3 THEN None
        ELSE LET state_zip == SplitWords(Strip(parts[Len(parts)]), <<>>)
             IN  IF Len(state_zip) >= 2
                 THEN Some([address |-> parts[1],
                            city |-> StrTitle(parts[2]),
                            state |-> StrUpper(state_zip[1]),
                            zipcode |-> state_zip[Len(state_zip)]])
                 ELSE None

\* ------------------------------------------------------------------------
\* Inputs
\* ------------------------------------------------------------------------
Users == {"u1", "u2"}
Sessions == {"s1", "s2"}

\* "1 Mt, ax, tx 7"
FA_Main == <<"1", " ", "M", "t", ",", " ", "a", "x", ",", " ", "t", "x", " ", "7">>
\* "1 mt, ax, tx 7": the same place, the street typed in lower case
FA_Lower == <<"1", " ", "m", "t", ",", " ", "a", "x", ",", " ", "t", "x", " ", "7">>
\* "1 Mt, ax": no state and zip
FA_Short == <<"1", " ", "M", "t", ",", " ", "a", "x">>
\* "": nothing typed
FA_Empty == <<>>

FullAddresses == {FA_Main, FA_Lower, FA_Short, FA_Empty}

\* what a script run may find when it reaches the usage store (Supabase)
StoreOutcomes == {"ok", "request_error", "client_error"}

\* what one requests.get of the provider lookup may produce
Responses ==
    {"200_data", "200_empty", "401", "429", "500", "404", "timeout", "connection_error"}

\* a 401 is retried like a rate limit
Transient_With401 == {"429", "500", "timeout", "connection_error", "401"}

\* an empty answer is retried like a server error
Transient_WithEmpty == {"429", "500", "timeout", "connection_error", "200_empty"}

\* the outcomes that take a retrying branch of the loop
Transient == {"429", "500", "timeout", "connection_error"}

\* usage rows of user u1 already in the store when the sessions start (written
\* by earlier searches at the first instant of the month): two searches are
\* left, or none; user u2 has one row
PreloadCounts == {Limit - 2, Limit}

\* ttl of the decorator of get_user_properties, seconds
PropertiesTTL == 300

\* hashlib.md5(text).hexdigest(): the digest stands for the text it was taken of
Md5Hex(text) == <<"md5", text>>

\* md5 of address, city and state written one after the other
property_hash(data) == Md5Hex(data.address \o data.city \o data.state)

\* a provider record of the property at "1 Mt", as fetched at some price
HomeData(price) ==
    [address |-> <<"1", " ", "M", "t">>, city |-> <<"a", "x">>,
     state |-> <<"T", "X">>, price |-> price]

\* a provider record of another property
OtherData ==
    [address |-> <<"2", " ", "M", "t">>, city |-> <<"a", "x">>,
     state |-> <<"T", "X">>, price |-> 100000]

\* the records a user may press "Save Property" on: the same property, as
\* fetched at two times
SavedData == {HomeData(100000), HomeData(150000)}

\* the row save_property writes
PropertyRow(id, user_id, data, t) ==
    [id |-> id, user_id |-> user_id, property_hash |-> property_hash(data),
     data |-> data, updated_at |-> t]

\* rows of the properties table that exist when the sessions start
InitialProperties ==
    {PropertyRow(1, "u1", OtherData, 0), PropertyRow(2, "u2", HomeData(100000), 0)}

PropertyIds == {1, 2}

IdleSteps == {TTL - 1, TTL, MonthSecs}

\* the years the analysis runs in
Years == {2026, 2027, 2030}

\* ------------------------------------------------------------------------
\* State
\* ------------------------------------------------------------------------
VARIABLES
    now,            \* the clock, seconds since the start of month 0 (UTC)
    secrets_ok,     \* st.secrets holds every key get_config reads
    api_usage,      \* the api_usage table, a bag of rows
    properties,     \* the properties table
    cache,          \* st.cache_data store of fetch_property_data: key -> entry
    lock,           \* holder of the compute lock of the cached function
    wp_user,        \* session -> logged-in user id
    sess,           \* session -> locals of the running script and session_state
    provider_calls, \* history: user -> month -> provider requests sent
    last_fetch,     \* history: key -> the last record a provider call produced
    clears,         \* history: number of st.cache_data.clear() calls
    events,         \* counter for the bound
    shown_record,   \* the property record handed to analyze_property
    clock_year,     \* datetime.datetime.now().year
    analysis,       \* the analysis shown for the record, if any
    properties_cache, \* st.cache_data store of get_user_properties: user -> entry
    next_id,        \* the id the properties table gives the next inserted row
    portfolio       \* session -> locals of save_property / the portfolio page

analysis_vars == <<shown_record, clock_year, analysis>>

portfolio_vars == <<properties_cache, next_id, portfolio>>

vars == <<now, secrets_ok, api_usage, properties, cache, lock, wp_user, sess,
          provider_calls, last_fetch, clears, events, analysis_vars,
          portfolio_vars>>

Months == 0..MaxEvents

MonthOf(t) == t \div MonthSecs

\* now.replace(day=1, hour=0, minute=0, second=0, microsecond=0)
StartOfMonth(t) == MonthOf(t) * MonthSecs

\* created_at[:10], the date part of the ISO timestamp
DateOf(t) == t \div DaySecs

\* ------------------------------------------------------------------------
\* utils/config.py
\* ------------------------------------------------------------------------
ConfigValue == [rentcast_url |-> "https://api.rentcast.io/v1", rentcast_key |-> "key"]

get_config == IF secrets_ok THEN Some(ConfigValue) ELSE None

\* ------------------------------------------------------------------------
\* utils/usage.py
\* ------------------------------------------------------------------------
StrVal(s) == [kind |-> "str", v |-> s]
DictVal(d) == [kind |-> "dict", v |-> d]
NoneVal == [kind |-> "none"]
EmptyDict == [kind |-> "emptydict"]

\* metadata or {}
OrEmptyDict(v) == IF v = NoneVal \/ v = EmptyDict THEN EmptyDict ELSE v

\* the query uses gt instead of gte
CurrentMonthRows_Gt(rows, user_id, t) ==
    [r \in {x \in DOMAIN rows :
                x.user_id = user_id /\ x.created_at > StartOfMonth(t)} |-> rows[r]]

\* the rows of a user created at or after start (the .eq().gte() query)
CurrentMonthRows(rows, user_id, t) ==
    [r \in {x \in DOMAIN rows :
                x.user_id = user_id /\ x.created_at >= StartOfMonth(t)} |-> rows[r]]

UserRows(rows, user_id) ==
    [r \in {x \in DOMAIN rows : x.user_id = user_id} |-> rows[r]]

calculate_daily_usage(usage_data) ==
    [d \in {DateOf(r.created_at) : r \in DOMAIN usage_data} |->
        BagCardinality([r \in {x \in DOMAIN usage_data : DateOf(x.created_at) = d}
                          |-> usage_data[r]])]

UsageDefaults == [current_month |-> 0, total |-> 0, limit |-> Limit]

\* get_user_usage once the client exists: the report, or the defaults when a
\* query raises
get_user_usage(rows, user_id, t, store) ==
    IF store # "ok" THEN UsageDefaults
    ELSE LET cur == CurrentMonthRows(rows, user_id, t)
         IN  [current_month |-> BagCardinality(cur),
              total |-> BagCardinality(UserRows(rows, user_id)),
              limit |-> Limit,
              by_type |->
                  [q \in {r.query_type : r \in DOMAIN cur} |->
                      BagCardinality([r \in {x \in DOMAIN cur : x.query_type = q}
                                        |-> cur[r]])],
              daily_usage |-> calculate_daily_usage(cur)]

\* the row log_usage builds (query_type defaults to "property_search",
\* metadata to None)
LogData(user_id, query, query_type, metadata, t) ==
    [user_id |-> user_id,
     query |-> query,
     query_type |-> query_type,
     created_at |-> t,
     metadata |-> OrEmptyDict(metadata)]

\* log_usage: the table afterwards; only a completed insert adds the row
log_usage(rows, user_id, query, query_type, metadata, t, store) ==
    IF store = "ok"
    THEN rows (+) SetToBag({LogData(user_id, query, query_type, metadata, t)})
    ELSE rows

\* ------------------------------------------------------------------------
\* utils/rentcast_api.py
\* ------------------------------------------------------------------------
\* the arguments st.cache_data hashes into the key of an entry
FetchKey(address, city, state) == <<address, city, state>>

SearchParams(address, city, state) ==
    [address |-> address, city |-> city, state |-> state,
     propertyType |-> "Single Family"]

\* f"{address}_{city}_{state}".lower().replace(" ", "_")
CacheKeyField(address, city, state) ==
    ReplaceSpace(StrLower(address \o <<"_">> \o city \o <<"_">> \o state))

\* data[0] of the provider's answer, enriched as the code enriches it
EnrichedRecord(address, city, state, t) ==
    [data |-> <<address, city, state>>,
     fetch_timestamp |-> t,
     search_params |-> SearchParams(address, city, state),
     cache_key |-> CacheKeyField(address, city, state)]

\* the entry is served for one hour only
Live_OneHour(entry, t) == t < entry.stored_at + HourSecs

\* an entry whose age equals the ttl is still served
Live_Inclusive(entry, t) == t <= entry.stored_at + TTL

\* an entry is served while its age is below the ttl of the decorator
Live(entry, t) == t < entry.stored_at + TTL

CacheHit(c, key, t) == key \in DOMAIN c /\ Live(c[key], t)

CacheWrite(c, key, value, t) ==
    [k \in DOMAIN c \cup {key} |->
        IF k = key THEN [value |-> value, stored_at |-> t] ELSE c[k]]

\* the loop bound is off by one
ShouldRetry_OneMore(resp, attempt) == resp \in {"429", "500", "timeout", "connection_error"} /\ attempt < max_retries

\* the branch of the retry loop a response takes, while attempts remain
ShouldRetry(resp, attempt) == resp \in Transient /\ attempt < max_retries - 1

\* the message shown when an attempt ends the invocation
EndMessage(resp) ==
    CASE resp = "200_data" -> "record"
      [] resp = "200_empty" -> "not_found"
      [] resp = "401" -> "auth_failed"
      [] resp = "429" -> "rate_limit_exceeded"
      [] resp = "500" -> "server_error"
      [] resp = "timeout" -> "timed_out"
      [] resp = "connection_error" -> "connection_error"
      [] OTHER -> "api_error"

\* ------------------------------------------------------------------------
\* utils/property_analysis.py
\* ------------------------------------------------------------------------
\* A property record is a dict; every value is tagged with its Python type.
\* Missing stands for a key the dict does not have.  Numbers returned by
\* round(x, 2) are kept in hundredths (8.4 is 840); a float before rounding is
\* the exact fraction [n, d] with d > 0.
IntVal(n) == [kind |-> "int", i |-> n]
Missing == [kind |-> "missing"]

\* dict.get(key, default)
Get(d, key, default) == IF d[key] = Missing THEN default ELSE d[key]

\* dict.get(key): None when the key is missing
GetOrNone(d, key) == Get(d, key, NoneVal)

\* truth value of a Python object
PyTruthy(x) ==
    CASE x.kind = "int" -> x.i # 0
      [] x.kind = "str" -> x.v # ""
      [] x.kind = "dict" -> TRUE
      [] OTHER -> FALSE

\* a or b
PyOr(a, b) == IF PyTruthy(a) THEN a ELSE b

\* isinstance(x, int)
IsInt(x) == x.kind = "int"

\* isinstance(x, dict)
IsDict(x) == x.kind = "dict"

ZeroDivisionError == [raised |-> "ZeroDivisionError"]

Raised(x) == "raised" \in DOMAIN x

\* a / b for ints a and b >= 0
TrueDiv(a, b) == IF b = 0 THEN ZeroDivisionError ELSE [n |-> a, d |-> b]

\* the nearest integer to n / d (d > 0), ties to the even one
RoundHalfEven(n, d) ==
    LET q == n \div d
        r == n % d
    IN  IF 2 * r < d THEN q
        ELSE IF 2 * r > d THEN q + 1
        ELSE IF q % 2 = 0 THEN q ELSE q + 1

RECURSIVE Gcd(_, _)
Gcd(a, b) == IF b = 0 THEN a ELSE Gcd(b, a % b)

Abs(n) == IF n < 0 THEN -n ELSE n

\* the fraction n / d (d > 0) in lowest terms
Frac(n, d) ==
    LET g == Gcd(Abs(n), d) IN [n |-> n \div g, d |-> d \div g]

\* x * k for an int k
FracTimes(x, k) ==
    LET g == Gcd(Abs(k), x.d) IN Frac(x.n * (k \div g), x.d \div g)

\* x / y for a fraction y > 0
FracOver(x, y) ==
    IF y.n = 0 THEN ZeroDivisionError
    ELSE LET g1 == Gcd(Abs(x.n), y.n)
             g2 == Gcd(y.d, x.d)
         IN  Frac((x.n \div g1) * (y.d \div g2), (x.d \div g2) * (y.n \div g1))

\* x > k for an int k
FracGreater(x, k) == x.n > k * x.d

\* round(x, 2), in hundredths
Round2(x) ==
    LET g == Gcd(100, x.d) IN RoundHalfEven(x.n * (100 \div g), x.d \div g)

\* extract_basic_info, the keys the model carries
extract_basic_info(data) ==
    [square_feet |-> Get(data, "squareFootage", IntVal(0)),
     year_built |-> Get(data, "yearBuilt", StrVal("N/A"))]

\* price = data.get('price', 0) or data.get('lastSalePrice', 0)
PriceOf(data) ==
    PyOr(Get(data, "price", IntVal(0)), Get(data, "lastSalePrice", IntVal(0)))

\* data.get('rentEstimate', {}).get('rent', 0) if it is a dict, else 0
RentEstimateOf(data) ==
    IF IsDict(GetOrNone(data, "rentEstimate"))
    THEN Get(data.rentEstimate.v, "rent", IntVal(0))
    ELSE IntVal(0)

\* only the rent is tested
HasPriceAndRent_RentOnly(price, rent_estimate) == PyTruthy(rent_estimate)

\* if price and rent_estimate:
HasPriceAndRent(price, rent_estimate) == PyTruthy(price) /\ PyTruthy(rent_estimate)

\* the expenses are taken as 4% of the price
CashFlowOf_FourPercent(monthly_rent, price) == Frac(25 * monthly_rent - price, 25)

\* monthly_rent - (price * 0.004)
CashFlowOf(monthly_rent, price) == Frac(250 * monthly_rent - price, 250)

\* calculate_financial_metrics: the dict returned, or the exception raised
calculate_financial_metrics(data) ==
    LET price == PriceOf(data)
        rent_estimate == RentEstimateOf(data)
    IN  IF HasPriceAndRent(price, rent_estimate)
        THEN LET monthly_rent == rent_estimate.i
                 annual_rent == monthly_rent * 12
                 ratio == TrueDiv(annual_rent, price.i)
                 cap_rate == IF price.i > 0
                             THEN (IF Raised(ratio) THEN ratio
                                   ELSE FracTimes(Frac(ratio.n, ratio.d), 100))
                             ELSE Frac(0, 1)
                 price_to_rent == IF annual_rent > 0
                                  THEN TrueDiv(price.i, annual_rent)
                                  ELSE Frac(0, 1)
                 cash_flow == CashFlowOf(monthly_rent, price.i)
                 \* (cash_flow * 12 / (price * 0.2)) * 100
                 yearly == FracOver(FracTimes(cash_flow, 12), Frac(price.i, 5))
                 roi == IF price.i > 0
                        THEN (IF Raised(yearly) THEN yearly ELSE FracTimes(yearly, 100))
                        ELSE Frac(0, 1)
                 parts == <<cap_rate, price_to_rent, roi>>
             IN  IF \E i \in 1..Len(parts) : Raised(parts[i])
                 THEN ZeroDivisionError
                 ELSE [price |-> price,
                       monthly_rent |-> monthly_rent,
                       annual_rent |-> annual_rent,
                       cap_rate |-> Round2(cap_rate),
                       price_to_rent_ratio |-> Round2(price_to_rent),
                       estimated_cash_flow |-> Round2(cash_flow),
                       roi_estimate |-> Round2(roi)]
        ELSE [price |-> price,
              monthly_rent |-> rent_estimate.i,
              annual_rent |-> rent_estimate.i * 12,
              cap_rate |-> 0,
              price_to_rent_ratio |-> 0,
              estimated_cash_flow |-> 0,
              roi_estimate |-> 0]

\* the division is not guarded
HasSquareFootage_Always(data) == TRUE

\* ... if data.get('squareFootage') else 0
HasSquareFootage(data) == PyTruthy(GetOrNone(data, "squareFootage"))

\* data.get('price', 0) / data.get('squareFootage', 1) if ... else 0
PricePerSqft(data) ==
    IF HasSquareFootage(data)
    THEN TrueDiv(Get(data, "price", IntVal(0)).i, Get(data, "squareFootage", IntVal(1)).i)
    ELSE Frac(0, 1)

\* the thresholds are inclusive
MarketStatusOf_Inclusive(price_per_sqft) ==
    IF price_per_sqft.n >= 200 * price_per_sqft.d THEN "Hot Market"
    ELSE IF price_per_sqft.n >= 100 * price_per_sqft.d THEN "Balanced Market"
    ELSE "Buyer's Market"

\* the if/elif/else of determine_market_status
MarketStatusOf(price_per_sqft) ==
    IF FracGreater(price_per_sqft, 200) THEN "Hot Market"
    ELSE IF FracGreater(price_per_sqft, 100) THEN "Balanced Market"
    ELSE "Buyer's Market"

determine_market_status(data) ==
    LET price_per_sqft == PricePerSqft(data)
    IN  IF Raised(price_per_sqft) THEN price_per_sqft
        ELSE [returned |-> MarketStatusOf(price_per_sqft)]

\* the if/elif/else on property_age
AppreciationOf(property_age) ==
    IF property_age < 10 THEN "High"
    ELSE IF property_age < 30 THEN "Moderate"
    ELSE "Low"

\* analyze_appreciation_potential: year_built = data.get('yearBuilt', 2000)
analyze_appreciation_potential(data, current_year) ==
    LET year_built == Get(data, "yearBuilt", IntVal(2000))
        property_age == IF IsInt(year_built) THEN current_year - year_built.i ELSE 20
    IN  AppreciationOf(property_age)

\* perform_market_analysis: the dict returned, or the exception raised
perform_market_analysis(data, current_year) ==
    LET price_per_sqft == PricePerSqft(data)
        market_status == determine_market_status(data)
    IN  IF Raised(price_per_sqft) THEN price_per_sqft
        ELSE IF Raised(market_status) THEN market_status
        ELSE [neighborhood |-> Get(data, "neighborhood", StrVal("N/A")),
              price_per_sqft |-> Round2(price_per_sqft),
              market_status |-> market_status.returned,
              appreciation_potential |->
                  analyze_appreciation_potential(data, current_year)]

\* factors.insert(0, label)
Award_Prepend(acc, points, label) ==
    [score |-> acc.score + points, factors |-> <<label>> \o acc.factors]

\* score += points; factors.append(label)
Award(acc, points, label) ==
    [score |-> acc.score + points, factors |-> Append(acc.factors, label)]

\* the first threshold is inclusive
CapRateStep_Inclusive(acc, cap_rate) ==
    IF cap_rate >= 800 THEN Award(acc, 25, "Excellent cap rate")
    ELSE IF cap_rate > 600 THEN Award(acc, 15, "Good cap rate")
    ELSE IF cap_rate > 400 THEN Award(acc, 10, "Fair cap rate")
    ELSE acc

\* cap rate scoring (cap_rate in hundredths of a percent)
CapRateStep(acc, cap_rate) ==
    IF cap_rate > 800 THEN Award(acc, 25, "Excellent cap rate")
    ELSE IF cap_rate > 600 THEN Award(acc, 15, "Good cap rate")
    ELSE IF cap_rate > 400 THEN Award(acc, 10, "Fair cap rate")
    ELSE acc

\* a negative cash flow costs points
CashFlowStep_Penalty(acc, cash_flow) ==
    IF cash_flow > 30000 THEN Award(acc, 25, "Strong cash flow")
    ELSE IF cash_flow > 10000 THEN Award(acc, 15, "Positive cash flow")
    ELSE IF cash_flow > 0 THEN Award(acc, 10, "Break-even cash flow")
    ELSE IF cash_flow < 0 THEN [acc EXCEPT !.score = @ - 25]
    ELSE acc

\* cash flow scoring (cash_flow in cents)
CashFlowStep(acc, cash_flow) ==
    IF cash_flow > 30000 THEN Award(acc, 25, "Strong cash flow")
    ELSE IF cash_flow > 10000 THEN Award(acc, 15, "Positive cash flow")
    ELSE IF cash_flow > 0 THEN Award(acc, 10, "Break-even cash flow")
    ELSE acc

\* market status scoring
MarketStep(acc, market_status) ==
    IF market_status = "Buyer's Market"
    THEN Award(acc, 20, "Favorable market conditions")
    ELSE IF market_status = "Balanced Market"
    THEN Award(acc, 15, "Stable market conditions")
    ELSE acc

\* appreciation potential scoring
AppreciationStep(acc, appreciation_potential) ==
    IF appreciation_potential = "High"
    THEN Award(acc, 15, "High appreciation potential")
    ELSE IF appreciation_potential = "Moderate"
    THEN Award(acc, 10, "Moderate appreciation potential")
    ELSE acc

\* datetime.now().year - data.get('yearBuilt', 2000)
\*     if isinstance(data.get('yearBuilt'), int) else 20
ScoreAgeOf(data, current_year) ==
    IF IsInt(GetOrNone(data, "yearBuilt"))
    THEN current_year - Get(data, "yearBuilt", IntVal(2000)).i
    ELSE 20

\* property condition (age-based) scoring
AgeStep(acc, property_age) ==
    IF property_age < 10 THEN Award(acc, 15, "New property")
    ELSE IF property_age < 30 THEN Award(acc, 10, "Well-maintained age")
    ELSE acc

\* the thresholds are exclusive
GradeOf_Exclusive(score) ==
    IF score > 80 THEN <<"A+", "Excellent investment opportunity">>
    ELSE IF score > 70 THEN <<"A", "Strong investment potential">>
    ELSE IF score > 60 THEN <<"B+", "Good investment with some caution">>
    ELSE IF score > 50 THEN <<"B", "Fair investment opportunity">>
    ELSE IF score > 40 THEN <<"C", "Marginal investment - proceed carefully">>
    ELSE <<"D", "Poor investment - not recommended">>

\* determine grade: <<grade, recommendation>>
GradeOf(score) ==
    IF score >= 80 THEN <<"A+", "Excellent investment opportunity">>
    ELSE IF score >= 70 THEN <<"A", "Strong investment potential">>
    ELSE IF score >= 60 THEN <<"B+", "Good investment with some caution">>
    ELSE IF score >= 50 THEN <<"B", "Fair investment opportunity">>
    ELSE IF score >= 40 THEN <<"C", "Marginal investment - proceed carefully">>
    ELSE <<"D", "Poor investment - not recommended">>

\* calculate_investment_score: the dict returned, or the exception raised
calculate_investment_score(data, current_year) ==
    LET metrics == calculate_financial_metrics(data)
        market == perform_market_analysis(data, current_year)
    IN  IF Raised(metrics) THEN metrics
        ELSE IF Raised(market) THEN market
        ELSE LET a0 == [score |-> 0, factors |-> <<>>]
                 a1 == CapRateStep(a0, metrics.cap_rate)
                 a2 == CashFlowStep(a1, metrics.estimated_cash_flow)
                 a3 == MarketStep(a2, market.market_status)
                 a4 == AppreciationStep(a3, market.appreciation_potential)
                 a5 == AgeStep(a4, ScoreAgeOf(data, current_year))
             IN  [score |-> a5.score,
                  grade |-> GradeOf(a5.score)[1],
                  recommendation |-> GradeOf(a5.score)[2],
                  positive_factors |-> a5.factors]

\* analyze_property: the analysis dict, or the exception one of the parts raised
analyze_property(property_data, current_year) ==
    LET financial_metrics == calculate_financial_metrics(property_data)
        market_analysis == perform_market_analysis(property_data, current_year)
        investment_score == calculate_investment_score(property_data, current_year)
    IN  IF Raised(financial_metrics) THEN financial_metrics
        ELSE IF Raised(market_analysis) THEN market_analysis
        ELSE IF Raised(investment_score) THEN investment_score
        ELSE [basic_info |-> extract_basic_info(property_data),
              financial_metrics |-> financial_metrics,
              market_analysis |-> market_analysis,
              investment_score |-> investment_score]

\* the records analysed: every field is absent or holds one of a few values
\* that sit on, just above and just below the thresholds of the analysis
PriceValues ==
    {Missing} \cup {IntVal(n) : n \in {0, 99998, 100000, 149930, 150000, 500000, 500001}}

LastSalePriceValues == {Missing, IntVal(100000)}

\* absent, a bare number, or a dict with or without 'rent'
RentEstimateValues ==
    {Missing, IntVal(1500)} \cup
    {DictVal([rent |-> r]) :
        r \in {Missing} \cup {IntVal(n) : n \in {0, 400, 500, 700, 1000, 3500}}}

SquareFootageValues == {Missing, IntVal(0), IntVal(1000), IntVal(2500)}

\* absent, null, a string, or a year
YearBuiltValues ==
    {Missing, NoneVal, StrVal("1995"),
     IntVal(1990), IntVal(1997), IntVal(2000), IntVal(2017)}

Records ==
    [price : PriceValues,
     lastSalePrice : LastSalePriceValues,
     rentEstimate : RentEstimateValues,
     squareFootage : SquareFootageValues,
     yearBuilt : YearBuiltValues,
     neighborhood : {Missing}]

\* ------------------------------------------------------------------------
\* Sessions
\* ------------------------------------------------------------------------
FreshLocals ==
    [pc |-> "idle",
     usage_data |-> None,
     full_address |-> <<>>,
     parsed |-> None,
     attempt |-> 0,
     retry_delay |-> InitialRetryDelay,
     property_data |-> None,
     \* history of the current script run
     usage_store |-> "none",
     outcome |-> "none",
     hit |-> FALSE,
     reqs |-> 0,
     sleeps |-> <<>>,
     last_resp |-> "none",
     only_429 |-> TRUE,
     prior |-> None,
     returned |-> None,
     shown |-> None,
     logged |-> 0,
     log_store |-> "none",
     passed_with |-> -1]

\* the script run is over: its locals are gone, the history keeps how it ended
EndRun(outcome, returned, shown, logged, log_store) ==
    [FreshLocals EXCEPT !.outcome = outcome, !.returned = returned,
                        !.shown = shown, !.logged = logged,
                        !.log_store = log_store]

EndEarly(outcome) == EndRun(outcome, None, None, 0, "none")

InitialSession ==
    [l |-> FreshLocals, last_property_data |-> None, last_search_params |-> None]

\* the dict the search flow passes as the third positional argument
SearchMetadata(full_address, parsed, t) ==
    DictVal([full_address |-> full_address,
             parsed |-> parsed,
             search_type |-> "property_search",
             timestamp |-> t])

\* nothing was saved or listed in the session yet
InitialPortfolio ==
    [pc |-> "none", data |-> None, existing |-> {}, returned |-> None,
     saved |-> None, listing |-> {}, from_cache |-> FALSE]

PreloadRow(user_id) ==
    LogData(user_id, FA_Main,
            SearchMetadata(FA_Main, parse_full_address(FA_Main), 0),
            NoneVal, 0)

InitWith(users) ==
    /\ now = 0
    /\ secrets_ok \in BOOLEAN
    /\ \E n \in PreloadCounts :
          /\ api_usage = [r \in {PreloadRow("u1"), PreloadRow("u2")} |->
                              IF r.user_id = "u1" THEN n ELSE 1]
          /\ provider_calls =
                [u \in Users |-> [m \in Months |->
                    IF m # 0 THEN 0 ELSE IF u = "u1" THEN n ELSE 1]]
    /\ properties = InitialProperties
    /\ cache = <<>>
    /\ lock = "free"
    /\ wp_user = users
    /\ sess = [s \in DOMAIN users |-> InitialSession]
    /\ last_fetch = <<>>
    /\ clears = 0
    /\ events = 0
    /\ properties_cache = <<>>
    /\ next_id = 3
    /\ portfolio = [s \in DOMAIN users |-> InitialPortfolio]

\* no record is under analysis
NoAnalysis == shown_record = None /\ clock_year = 2026 /\ analysis = None

\* one browser session is open, of user u1
Init == InitWith([s \in {"s1"} |-> "u1"]) /\ NoAnalysis

CountCall(pc, user, t) ==
    [pc EXCEPT ![user][MonthOf(t)] = @ + 1]

\* display_main_application up to the page dispatch: the sidebar reads the
\* usage report; a failing create_client ends the script run
MainPage(s, store) ==
    /\ UNCHANGED analysis_vars
    /\ UNCHANGED portfolio_vars
    /\ sess[s].l.pc = "idle"
    /\ IF store = "client_error"
       THEN sess' = [sess EXCEPT ![s].l = EndEarly("page_error")]
       ELSE sess' = [sess EXCEPT ![s].l =
                [FreshLocals EXCEPT
                    !.pc = "page",
                    !.usage_store = store,
                    !.usage_data = Some(get_user_usage(api_usage, wp_user[s], now, store))]]
    /\ UNCHANGED <<now, secrets_ok, api_usage, properties, cache, lock, wp_user,
                   provider_calls, last_fetch, clears, events>>

\* the comparison is strict
QuotaReached_Strict(usage_data) == usage_data.current_month > usage_data.limit

\* if usage_data['current_month'] >= usage_data['limit']
QuotaReached(usage_data) == usage_data.current_month >= usage_data.limit

\* display_property_search, from the submit to the call of the fetch client
StartSearch(s, full_address) ==
    /\ UNCHANGED analysis_vars
    /\ UNCHANGED portfolio_vars
    /\ sess[s].l.pc = "page"
    /\ events < MaxEvents
    /\ events' = events + 1
    /\ LET usage_data == sess[s].l.usage_data[1]
           parsed_address == parse_full_address(Strip(full_address))
       IN  sess' = [sess EXCEPT ![s].l =
               IF full_address = <<>>
               THEN EndEarly("no_address")
               ELSE IF ~Truthy(parsed_address)
               THEN EndEarly("bad_address")
               ELSE IF QuotaReached(usage_data)
               THEN EndEarly("denied")
               ELSE [@ EXCEPT !.pc = "call_fetch",
                              !.full_address = full_address,
                              !.parsed = parsed_address]]
    /\ UNCHANGED <<now, secrets_ok, api_usage, properties, cache, lock, wp_user,
                   provider_calls, last_fetch, clears>>

KeyOf(s) ==
    LET p == sess[s].l.parsed[1] IN FetchKey(p.address, p.city, p.state)

\* history: the record an earlier call with the same arguments produced, when
\* this call comes inside its TTL window (whatever happened to the cache)
PriorOf(key, t) ==
    IF key \in DOMAIN last_fetch /\ t < last_fetch[key].rec.fetch_timestamp + TTL
    THEN Some([rec |-> last_fetch[key].rec,
               reqs |-> last_fetch[key].reqs,
               cleared |-> last_fetch[key].clears # clears])
    ELSE None

\* the st.cache_data wrapper: a live entry is returned; otherwise the caller
\* takes the compute lock and runs the function up to its first request
CallFetch(s) ==
    /\ UNCHANGED analysis_vars
    /\ UNCHANGED portfolio_vars
    /\ sess[s].l.pc = "call_fetch"
    /\ LET key == KeyOf(s)
       IN  IF CacheHit(cache, key, now)
           THEN /\ sess' = [sess EXCEPT ![s].l =
                       [@ EXCEPT !.pc = "fetched", !.hit = TRUE,
                                 !.property_data = cache[key].value,
                                 !.outcome = "cached",
                                 !.prior = PriorOf(key, now)]]
                /\ UNCHANGED <<cache, lock>>
           ELSE /\ lock = "free"
                /\ IF ~Truthy(get_config)
                   THEN /\ sess' = [sess EXCEPT ![s].l =
                               [@ EXCEPT !.pc = "fetched",
                                         !.property_data = None,
                                         !.outcome = "no_config",
                                         !.prior = PriorOf(key, now)]]
                        /\ cache' = CacheWrite(cache, key, None, now)
                        /\ UNCHANGED lock
                   ELSE /\ sess' = [sess EXCEPT ![s].l =
                               [@ EXCEPT !.pc = "attempt", !.attempt = 0,
                                         !.retry_delay = InitialRetryDelay,
                                         !.prior = PriorOf(key, now)]]
                        /\ lock' = s
                        /\ UNCHANGED cache
    /\ UNCHANGED <<now, secrets_ok, api_usage, properties, wp_user,
                   provider_calls, last_fetch, clears, events>>

\* history: what the call that just returned leaves for later calls
NoteFetch(key, value, reqs) ==
    IF Truthy(value)
    THEN [k \in DOMAIN last_fetch \cup {key} |->
            IF k = key THEN [rec |-> value[1], reqs |-> reqs, clears |-> clears]
            ELSE last_fetch[k]]
    ELSE last_fetch

\* the timeout branch does not double the delay
NextDelay_TimeoutFlat(resp, retry_delay) ==
    IF resp = "timeout" THEN retry_delay ELSE retry_delay * 2

\* retry_delay *= 2, in each of the four retrying branches
NextDelay(resp, retry_delay) == retry_delay * 2

\* one iteration of the retry loop of fetch_property_data: the request, the
\* branch on its outcome, and either the backoff sleep or the return (whose
\* value the wrapper writes to the cache before releasing the lock)
Attempt(s, resp) ==
    /\ UNCHANGED analysis_vars
    /\ UNCHANGED portfolio_vars
    /\ sess[s].l.pc = "attempt"
    /\ lock = s
    /\ LET l == sess[s].l
           p == l.parsed[1]
           key == KeyOf(s)
           seen == [l EXCEPT !.reqs = @ + 1, !.last_resp = resp,
                             !.only_429 = @ /\ resp = "429"]
       IN  IF ShouldRetry(resp, l.attempt)
           THEN /\ now' = now + l.retry_delay
                /\ sess' = [sess EXCEPT ![s].l =
                       [seen EXCEPT !.sleeps = Append(@, l.retry_delay),
                                    !.retry_delay = NextDelay(resp, @),
                                    !.attempt = @ + 1]]
                /\ UNCHANGED <<cache, lock, last_fetch>>
           ELSE LET value == IF resp = "200_data"
                             THEN Some(EnrichedRecord(p.address, p.city, p.state, now))
                             ELSE None
                IN  /\ sess' = [sess EXCEPT ![s].l =
                           [seen EXCEPT !.pc = "fetched",
                                        !.property_data = value,
                                        !.outcome = EndMessage(resp)]]
                    /\ cache' = CacheWrite(cache, key, value, now)
                    /\ last_fetch' = NoteFetch(key, value, l.reqs + 1)
                    /\ lock' = "free"
                    /\ UNCHANGED now
    /\ provider_calls' = CountCall(provider_calls, wp_user[s], now)
    /\ UNCHANGED <<secrets_ok, api_usage, properties, wp_user, clears, events>>

\* the row is written whatever the fetch returned
ShouldLog_Always(property_data) == TRUE

\* if property_data:
ShouldLog(property_data) == Truthy(property_data)

\* log_usage creates the client before its try block: a failing create_client
\* escapes it, a failing insert does not
LogUsageRaises(store) == store = "client_error"

\* except Exception as log_error: around the call of log_usage
LoggingGuardCatches == StoreOutcomes

\* the call of log_usage is not guarded
LoggingAborts_NoGuard(store) == LogUsageRaises(store)

\* the search is cut short by the logging step
LoggingAborts(store) == LogUsageRaises(store) /\ store \notin LoggingGuardCatches

\* display_property_search after the fetch returned: log, keep, present
FinishSearch(s, store) ==
    /\ UNCHANGED analysis_vars
    /\ UNCHANGED portfolio_vars
    /\ sess[s].l.pc = "fetched"
    /\ LET l == sess[s].l
           \* history: the current_month the quota check of this run compared
           Ended(e) == [e EXCEPT !.passed_with = l.usage_data[1].current_month]
       IN  IF ShouldLog(l.property_data)
           THEN /\ api_usage' =
                       log_usage(api_usage, wp_user[s], l.full_address,
                                 SearchMetadata(l.full_address, l.parsed, now),
                                 NoneVal, now, store)
                /\ IF LoggingAborts(store)
                   THEN sess' = [sess EXCEPT ![s].l =
                            Ended(EndRun("error", l.property_data, None,
                                   BagCardinality(api_usage') - BagCardinality(api_usage), store))]
                   ELSE sess' = [sess EXCEPT
                            ![s].l = Ended(EndRun(l.outcome, l.property_data, l.property_data,
                                            BagCardinality(api_usage') - BagCardinality(api_usage), store)),
                            ![s].last_property_data = l.property_data,
                            ![s].last_search_params = l.parsed]
           ELSE \* the else branch never reaches the store
                /\ store = "ok"
                /\ sess' = [sess EXCEPT ![s].l =
                        Ended(EndRun(l.outcome, l.property_data, None, 0, "none"))]
                /\ UNCHANGED api_usage
    /\ UNCHANGED <<now, secrets_ok, properties, cache, lock, wp_user,
                   provider_calls, last_fetch, clears, events>>

\* delete_property, called from the portfolio page
DeleteProperty(s, property_id, store) ==
    /\ UNCHANGED analysis_vars
    /\ UNCHANGED <<next_id, portfolio>>
    /\ sess[s].l.pc = "page"
    /\ events < MaxEvents
    /\ events' = events + 1
    /\ sess' = [sess EXCEPT ![s].l =
            EndEarly(IF store = "ok" THEN "deleted" ELSE "delete_failed")]
    /\ IF store = "ok"
       THEN /\ properties' =
                  {r \in properties : ~(r.id = property_id /\ r.user_id = wp_user[s])}
            \* st.cache_data.clear() empties every st.cache_data cache
            /\ cache' = <<>>
            /\ properties_cache' = <<>>
            /\ clears' = clears + 1
       ELSE UNCHANGED <<properties, cache, properties_cache, clears>>
    /\ UNCHANGED <<now, secrets_ok, api_usage, lock, wp_user, provider_calls,
                   last_fetch>>

\* time passes between two script runs (the user reads the page)
Idle(d) ==
    /\ UNCHANGED analysis_vars
    /\ UNCHANGED portfolio_vars
    /\ \A s \in DOMAIN sess : sess[s].l.pc = "idle"
    /\ events < MaxEvents
    /\ events' = events + 1
    /\ now' = IF d = MonthSecs THEN StartOfMonth(now) + MonthSecs ELSE now + d
    /\ UNCHANGED <<secrets_ok, api_usage, properties, cache, lock, wp_user, sess,
                   provider_calls, last_fetch, clears>>

\* the script run of the session is not inside save_property
NotSaving(s) == portfolio[s].pc # "selected"

\* save_property returns before the write: False without a client or when the
\* select raises, otherwise the ids of the rows the select found are held
SaveSelect(s, data, store) ==
    /\ UNCHANGED analysis_vars
    /\ sess[s].l.pc = "idle"
    /\ NotSaving(s)
    /\ events < MaxEvents
    /\ events' = events + 1
    /\ portfolio' = [portfolio EXCEPT ![s] =
          IF store = "ok"
          THEN [@ EXCEPT !.pc = "selected", !.data = Some(data),
                         !.returned = None, !.saved = None,
                         !.existing =
                            {r.id : r \in {x \in properties :
                                /\ x.user_id = wp_user[s]
                                /\ x.property_hash = property_hash(data)}}]
          ELSE [@ EXCEPT !.pc = "saved", !.data = Some(data), !.existing = {},
                         !.returned = Some(FALSE), !.saved = None]]
    /\ UNCHANGED <<now, secrets_ok, api_usage, properties, cache, lock, wp_user,
                   sess, provider_calls, last_fetch, clears, properties_cache,
                   next_id>>

\* the rows of the table after update(property_data).eq("id", id)
UpdateRow(rows, id, user_id, data, t) ==
    {IF r.id = id THEN PropertyRow(id, user_id, data, t) ELSE r : r \in rows}

\* save_property from the branch on existing.data to its return: the row found
\* first is updated, or a new row is inserted; a raising write returns False
SaveWrite(s, store) ==
    /\ UNCHANGED analysis_vars
    /\ portfolio[s].pc = "selected"
    /\ LET p == portfolio[s]
           data == p.data[1]
           user == wp_user[s]
       IN  IF store # "ok"
           THEN /\ portfolio' = [portfolio EXCEPT ![s] =
                        [@ EXCEPT !.pc = "saved", !.returned = Some(FALSE)]]
                /\ UNCHANGED <<properties, next_id>>
           ELSE IF p.existing # {}
           THEN \* the select has no order: any of the rows found is data[0]
                \E id \in p.existing :
                    /\ properties' = UpdateRow(properties, id, user, data, now)
                    /\ portfolio' = [portfolio EXCEPT ![s] =
                            [@ EXCEPT !.pc = "saved", !.returned = Some(TRUE),
                                      !.saved = Some(PropertyRow(id, user, data, now))]]
                    /\ UNCHANGED next_id
           ELSE /\ properties' =
                        properties \cup {PropertyRow(next_id, user, data, now)}
                /\ next_id' = next_id + 1
                /\ portfolio' = [portfolio EXCEPT ![s] =
                        [@ EXCEPT !.pc = "saved", !.returned = Some(TRUE),
                                  !.saved = Some(PropertyRow(next_id, user, data, now))]]
    /\ UNCHANGED <<now, secrets_ok, api_usage, cache, lock, wp_user, sess,
                   provider_calls, last_fetch, clears, events, properties_cache>>

\* an entry of get_user_properties is served while its age is below the ttl
PropertiesLive(entry, t) == t < entry.stored_at + PropertiesTTL

\* the body of get_user_properties: the rows of the user (the order of the
\* rows is left out), or [] without a client or when the query raises
UserProperties(rows, user_id, store) ==
    IF store = "ok" THEN {r \in rows : r.user_id = user_id} ELSE {}

\* the portfolio page calls the cached get_user_properties(user_id)
GetUserProperties(s, store) ==
    /\ UNCHANGED analysis_vars
    /\ sess[s].l.pc = "idle"
    /\ NotSaving(s)
    /\ events < MaxEvents
    /\ events' = events + 1
    /\ LET user == wp_user[s]
           hit == user \in DOMAIN properties_cache
                    /\ PropertiesLive(properties_cache[user], now)
           result == IF hit THEN properties_cache[user].value
                     ELSE UserProperties(properties, user, store)
       IN  /\ properties_cache' =
                 IF hit THEN properties_cache
                 ELSE CacheWrite(properties_cache, user, result, now)
           /\ portfolio' = [portfolio EXCEPT ![s] =
                 [@ EXCEPT !.pc = "listed", !.listing = result,
                           !.from_cache = hit]]
    /\ UNCHANGED <<now, secrets_ok, api_usage, properties, cache, lock, wp_user,
                   sess, provider_calls, last_fetch, clears, next_id>>

Next ==
    \/ \E s \in DOMAIN sess, store \in StoreOutcomes : MainPage(s, store)
    \/ \E s \in DOMAIN sess, fa \in FullAddresses : StartSearch(s, fa)
    \/ \E s \in DOMAIN sess : CallFetch(s)
    \/ \E s \in DOMAIN sess, resp \in Responses : Attempt(s, resp)
    \/ \E s \in DOMAIN sess, store \in StoreOutcomes : FinishSearch(s, store)
    \/ \E s \in DOMAIN sess, id \in PropertyIds, store \in StoreOutcomes :
          DeleteProperty(s, id, store)
    \/ \E d \in IdleSteps : Idle(d)

Spec == Init /\ [][Next]_vars

\* two browser sessions of the same user are open (two tabs); the script runs
\* of the two sessions are threads of one server process and interleave at
\* every call that leaves the process (store query, provider request, sleep)
InitConcurrent ==
    /\ InitWith([s \in Sessions |-> "u1"])
    /\ NoAnalysis
    /\ secrets_ok
    /\ BagCardinality(api_usage) = (Limit - 2) + 1

\* the search flows of the two sessions, both for the same address; nobody
\* deletes a property and the sessions do not pause for hours
NextConcurrent ==
    \/ \E s \in DOMAIN sess, store \in StoreOutcomes : MainPage(s, store)
    \/ \E s \in DOMAIN sess, fa \in {FA_Main} : StartSearch(s, fa)
    \/ \E s \in DOMAIN sess : CallFetch(s)
    \/ \E s \in DOMAIN sess, resp \in Responses : Attempt(s, resp)
    \/ \E s \in DOMAIN sess, store \in StoreOutcomes : FinishSearch(s, store)

SpecConcurrent == InitConcurrent /\ [][NextConcurrent]_vars

\* a search has returned a record and the page analyses it: the record and
\* the year of the clock are the inputs
InitAnalysis ==
    /\ InitWith([s \in {"s1"} |-> "u1"])
    /\ secrets_ok
    /\ BagCardinality(api_usage) = (Limit - 2) + 1
    /\ shown_record \in Records
    /\ clock_year \in Years
    /\ analysis = None

\* analysis = analyze_property(property_data)
AnalyzeProperty ==
    /\ analysis = None
    /\ analysis' = Some(analyze_property(shown_record, clock_year))
    /\ UNCHANGED <<now, secrets_ok, api_usage, properties, cache, lock, wp_user,
                   sess, provider_calls, last_fetch, clears, events, shown_record,
                   clock_year>>
    /\ UNCHANGED portfolio_vars

\* the page is opened again in a later year, for the same record
NewYear ==
    /\ analysis # None
    /\ \E y \in Years : y > clock_year /\ clock_year' = y
    /\ analysis' = None
    /\ UNCHANGED <<now, secrets_ok, api_usage, properties, cache, lock, wp_user,
                   sess, provider_calls, last_fetch, clears, events, shown_record>>
    /\ UNCHANGED portfolio_vars

NextAnalysis == AnalyzeProperty \/ NewYear

SpecAnalysis == InitAnalysis /\ [][NextAnalysis]_vars

\* two browser sessions of the same user are open; they save properties from
\* the search page, open the portfolio page and delete from it
InitPortfolio ==
    /\ InitWith([s \in Sessions |-> "u1"])
    /\ NoAnalysis
    /\ secrets_ok
    /\ BagCardinality(api_usage) = (Limit - 2) + 1

\* a session runs one script at a time: no other page is drawn, and no pause
\* is taken, between the select and the write of a save_property call
NextPortfolio ==
    \/ \E s \in DOMAIN sess, data \in SavedData, store \in {"ok", "client_error"} :
          SaveSelect(s, data, store)
    \/ \E s \in DOMAIN sess, store \in {"ok", "request_error"} : SaveWrite(s, store)
    \/ \E s \in DOMAIN sess, store \in {"ok", "request_error"} :
          GetUserProperties(s, store)
    \/ \E s \in DOMAIN sess : NotSaving(s) /\ MainPage(s, "ok")
    \/ \E s \in DOMAIN sess, id \in PropertyIds :
          NotSaving(s) /\ DeleteProperty(s, id, "ok")
    \/ \E d \in {PropertiesTTL} :
          (\A s \in DOMAIN sess : NotSaving(s)) /\ Idle(d)

SpecPortfolio == InitPortfolio /\ [][NextPortfolio]_vars

\* ------------------------------------------------------------------------
\* Properties
\* ------------------------------------------------------------------------
\* how a search that called the fetch client can end
FetchEnds ==
    {"record", "cached", "no_config", "not_found", "auth_failed", "api_error",
     "rate_limit_exceeded", "server_error", "timed_out", "connection_error"}

\* the ends reached by using up the retries
TransientEnds == {"rate_limit_exceeded", "server_error", "timed_out", "connection_error"}

RECURSIVE SumOver(_, _)
SumOver(f, S) ==
    IF S = {} THEN 0
    ELSE LET x == CHOOSE y \in S : TRUE IN f[x] + SumOver(f, S \ {x})

\* the distinct rows of a user with created_at at or after the first instant
\* of the month of t, read off the table itself
UserMonthRows(u, t) ==
    {r \in DOMAIN api_usage :
        r.user_id = u /\ r.created_at >= (t \div MonthSecs) * MonthSecs}

\* how many rows of the table they stand for
UserMonthCount(u, t) == SumOver(api_usage, UserMonthRows(u, t))

\* each sleep is 1 s for the first and the double of the previous one after
DoublingFromOne(sl) ==
    \A i \in 1..Len(sl) : sl[i] = IF i = 1 THEN 1 ELSE 2 * sl[i - 1]

\* C1, as stated: when a fetch returned a record and the same arguments are
\* fetched again inside the 2-hour window, the two calls together sent exactly
\* one provider request and the second returns the first one's fetch_timestamp.
C1_OneRequestAcrossBothCalls ==
    \A s \in DOMAIN sess :
        LET l == sess[s].l
        IN  (l.pc = "fetched" /\ Truthy(l.prior)) =>
                /\ l.prior[1].reqs + l.reqs = 1
                /\ Truthy(l.property_data)
                /\ l.property_data[1].fetch_timestamp = l.prior[1].rec.fetch_timestamp

\* C1, amended: when a fetch returned a record (after 1 to 3 provider requests)
\* and the same arguments are fetched again inside the 2-hour window with no
\* st.cache_data.clear() in between, the second call sends no provider request
\* and returns the first call's record, fetch_timestamp included.
C1_LiveEntryIsReplayed ==
    \A s \in DOMAIN sess :
        LET l == sess[s].l
        IN  (l.pc = "fetched" /\ Truthy(l.prior) /\ ~l.prior[1].cleared) =>
                /\ l.reqs = 0
                /\ l.property_data = Some(l.prior[1].rec)
                /\ l.prior[1].reqs \in 1..3

C1_Witness ==
    \E s \in DOMAIN sess :
        LET l == sess[s].l
        IN  /\ l.pc = "fetched" /\ Truthy(l.prior) /\ ~l.prior[1].cleared
            /\ l.prior[1].reqs = 2
            /\ now >= l.prior[1].rec.fetch_timestamp + HourSecs

C3_RateLimitedThreeAttempts ==
    \A s \in DOMAIN sess :
        LET l == sess[s].l
        IN  (l.only_429 /\ l.reqs > 0) =>
                /\ l.reqs <= 3
                /\ DoublingFromOne(l.sleeps)
                /\ (l.pc = "attempt" => Len(l.sleeps) = l.reqs)
                /\ (l.pc = "fetched" =>
                        l.reqs = 3 /\ Len(l.sleeps) = 2 /\ ~Truthy(l.property_data))

C3_Witness ==
    \E s \in DOMAIN sess :
        LET l == sess[s].l
        IN  l.pc = "fetched" /\ l.only_429 /\ l.reqs = 3 /\ l.sleeps = <<1, 2>>

\* C4, as stated: an invocation that uses up its retries on any mix of 429,
\* 5xx, timeout and network errors made 3 attempts with the backoff delays
\* 1 s, 2 s, 4 s and returns no record.
C4_DelaysOneTwoFour ==
    \A s \in DOMAIN sess :
        LET l == sess[s].l
        IN  (l.pc = "fetched" /\ l.outcome \in TransientEnds) =>
                l.reqs = 3 /\ l.sleeps = <<1, 2, 4>> /\ ~Truthy(l.property_data)

\* C4, amended: for any mix of 429, 5xx, timeout and network errors the
\* invocation makes at most 3 attempts, sleeps 1 s after the first failed
\* attempt and 2 s after the second whatever the error kinds (a third delay is
\* never slept), and after the third failure returns None, no record.
C4_DelaysOneTwo ==
    \A s \in DOMAIN sess :
        LET l == sess[s].l
        IN  /\ l.reqs <= 3
            /\ l.sleeps \in {<<>>, <<1>>, <<1, 2>>}
            /\ (l.pc = "attempt" => Len(l.sleeps) = l.reqs)
            /\ (l.pc = "fetched" /\ l.outcome \in TransientEnds) =>
                    l.reqs = 3 /\ l.sleeps = <<1, 2>> /\ ~Truthy(l.property_data)

C4_Witness ==
    \E s \in DOMAIN sess :
        LET l == sess[s].l
        IN  /\ l.pc = "fetched" /\ l.outcome = "timed_out"
            /\ ~l.only_429 /\ l.reqs = 3 /\ l.sleeps = <<1, 2>>

\* C5, as stated: every search that passed the quota check and called the fetch
\* client ends with exactly one usage row appended, whatever the fetch returned.
C5_OneRecordWhateverOutcome ==
    \A s \in DOMAIN sess :
        LET l == sess[s].l
        IN  (l.pc = "idle" /\ l.outcome \in FetchEnds) => l.logged = 1

\* C5, amended: a search that passed the quota check and called the fetch
\* client ends with exactly one usage row appended when the fetch returned a
\* record (from the provider or from the cache) and the insert succeeded, and
\* with none otherwise (NotFound, 401, other status, missing configuration,
\* exhausted retries, failed insert).
C5_OneRecordOnSuccessOnly ==
    \A s \in DOMAIN sess :
        LET l == sess[s].l
        IN  (l.pc = "idle" /\ l.outcome \in FetchEnds) =>
                l.logged = IF Truthy(l.returned) /\ l.log_store = "ok" THEN 1 ELSE 0

C5_Witness ==
    \E s \in DOMAIN sess :
        LET l == sess[s].l
        IN  /\ l.pc = "idle" /\ l.outcome = "record" /\ l.logged = 1
            /\ \E r \in DOMAIN api_usage :
                  r.user_id = wp_user[s] /\ r.created_at = now /\ now > 0

\* C6: between searches, the number of usage rows of a user in the current
\* month equals the number of provider requests sent for that user in that
\* month.
C6_CountEqualsProviderCalls ==
    (\A s \in DOMAIN sess : sess[s].l.pc = "idle") =>
        \A u \in Users :
            UserMonthCount(u, now) = provider_calls[u][MonthOf(now)]

C8_LoggingFailureKeepsRecord ==
    \A s \in DOMAIN sess :
        LET l == sess[s].l
        IN  (l.pc = "idle" /\ Truthy(l.returned)) =>
                /\ l.outcome \in {"record", "cached"}
                /\ l.shown = l.returned
                /\ sess[s].last_property_data = l.returned

C8_Witness ==
    \E s \in DOMAIN sess :
        LET l == sess[s].l
        IN  /\ l.pc = "idle" /\ Truthy(l.returned)
            /\ l.log_store = "client_error" /\ l.logged = 0
            /\ l.shown = l.returned

\* C9: a 401 response ends the invocation at once, on whichever attempt it
\* comes: the fetch has returned None, no sleep follows the 401 and no further
\* request is sent.
C9_AuthFailureIsTerminal ==
    \A s \in DOMAIN sess :
        LET l == sess[s].l
        IN  l.last_resp = "401" =>
                /\ l.pc = "fetched"
                /\ ~Truthy(l.property_data)
                /\ l.outcome = "auth_failed"
                /\ Len(l.sleeps) = l.reqs - 1

C9_Witness ==
    \E s \in DOMAIN sess :
        LET l == sess[s].l
        IN  l.last_resp = "401" /\ l.pc = "fetched" /\ l.reqs = 2 /\ l.sleeps = <<1>>

\* C10: a 200 response with an empty result ends the invocation at once with
\* no record (NotFound), on whichever attempt it comes: no sleep follows it
\* and no further request is sent.
C10_EmptyResultIsTerminal ==
    \A s \in DOMAIN sess :
        LET l == sess[s].l
        IN  l.last_resp = "200_empty" =>
                /\ l.pc = "fetched"
                /\ ~Truthy(l.property_data)
                /\ l.outcome = "not_found"
                /\ Len(l.sleeps) = l.reqs - 1

C10_Witness ==
    \E s \in DOMAIN sess :
        LET l == sess[s].l
        IN  l.last_resp = "200_empty" /\ l.pc = "fetched" /\ l.reqs = 3
            /\ l.sleeps = <<1, 2>>

\* the normalized form of the fetch arguments: each of street, city and state
\* lower-cased and cut into its words (runs of whitespace collapse)
NormalizedKey(key) == [i \in 1..Len(key) |-> SplitWords(StrLower(key[i]), <<>>)]

RECURSIVE SumSeq(_)
SumSeq(sq) == IF sq = <<>> THEN 0 ELSE Head(sq) + SumSeq(Tail(sq))

\* C11: when a fetch returned a record and a second fetch is called inside the
\* TTL window with arguments that have the same normalized key (they differ at
\* most in letter case or in runs of whitespace), the second call sends no
\* provider request and returns the first call's record.
C11_NormalizedKeyIsShared ==
    \A s \in DOMAIN sess :
        LET l == sess[s].l
        IN  l.pc = "fetched" =>
                \A k \in DOMAIN last_fetch :
                    (/\ k # KeyOf(s)
                     /\ NormalizedKey(k) = NormalizedKey(KeyOf(s))
                     /\ now - SumSeq(l.sleeps) < last_fetch[k].rec.fetch_timestamp + TTL
                     /\ last_fetch[k].clears = clears)
                    => /\ l.reqs = 0
                       /\ l.property_data = Some(last_fetch[k].rec)

\* C12: the quota check is not repeated at the insert: every usage row is
\* written by a flow whose own report, read before its fetch, showed
\* current_month < limit, whatever the store holds by then.  So two flows of one
\* user that both read limit - 1 both pass and both log (the witness: the month
\* then holds limit + 1 rows); count <= limit is not an invariant.
C12_EachFlowPassedItsOwnCheck ==
    \A s \in DOMAIN sess :
        LET l == sess[s].l
        IN  /\ l.logged \in {0, 1}
            /\ l.logged = 1 => l.passed_with \in 0..(Limit - 1)
            /\ (l.pc \in {"call_fetch", "attempt", "fetched"}) =>
                    l.usage_data[1].current_month < Limit

C12_Witness ==
    /\ UserMonthCount("u1", now) = Limit + 1
    /\ \A s \in Sessions :
          /\ s \in DOMAIN sess
          /\ sess[s].l.pc = "idle"
          /\ sess[s].l.logged = 1
          /\ sess[s].l.log_store = "ok"
          /\ sess[s].l.passed_with = Limit - 1

\* ------------------------------------------------------------------------
\* Properties of the analysis
\* ------------------------------------------------------------------------
\* an analysis has been computed and returned
Analysed == analysis # None /\ ~Raised(analysis[1])

\* the scoring table of the specification (rates in hundredths of a percent,
\* money in cents)
TableCapRate(cap_rate) ==
    IF cap_rate > 800 THEN 25 ELSE IF cap_rate > 600 THEN 15
    ELSE IF cap_rate > 400 THEN 10 ELSE 0

TableCashFlow(cash_flow) ==
    IF cash_flow > 30000 THEN 25 ELSE IF cash_flow > 10000 THEN 15
    ELSE IF cash_flow > 0 THEN 10 ELSE 0

TableMarket(market_status) ==
    CASE market_status = "Buyer's Market" -> 20
      [] market_status = "Balanced Market" -> 15
      [] market_status = "Hot Market" -> 0

TableAppreciation(appreciation_potential) ==
    CASE appreciation_potential = "High" -> 15
      [] appreciation_potential = "Moderate" -> 10
      [] appreciation_potential = "Low" -> 0

TableAge(property_age) ==
    IF property_age < 10 THEN 15 ELSE IF property_age < 30 THEN 10 ELSE 0

\* propertyAge of the specification: currentYear - yearBuilt, 20 when
\* yearBuilt is missing or not a number
PropertyAge(record, year) ==
    IF record.yearBuilt \in {IntVal(y) : y \in 1900..2030}
    THEN year - record.yearBuilt.i
    ELSE 20

\* the five awards of the analysis shown, read off its metrics and heuristics
TableAwards ==
    LET a == analysis[1]
    IN  <<TableCapRate(a.financial_metrics.cap_rate),
          TableCashFlow(a.financial_metrics.estimated_cash_flow),
          TableMarket(a.market_analysis.market_status),
          TableAppreciation(a.market_analysis.appreciation_potential),
          TableAge(PropertyAge(shown_record, clock_year))>>

\* C13: for every property record the score returned is an integer in
\* [0, 100] and the grade is one of A+, A, B+, B, C, D.
C13_ScoreAndGradeInRange ==
    analysis # None =>
        /\ ~Raised(analysis[1])
        /\ analysis[1].investment_score.score \in 0..100
        /\ analysis[1].investment_score.grade \in {"A+", "A", "B+", "B", "C", "D"}

C13_Witness ==
    /\ Analysed
    /\ analysis[1].investment_score.score = 0
    /\ analysis[1].investment_score.grade = "D"
    /\ analysis[1].financial_metrics.estimated_cash_flow < 0

\* C14: the score is exactly the sum of the five awards of the scoring table
\* (strict thresholds, nothing at or below the lowest one); price 500000 with
\* monthly rent 3500 has cap rate 8.4 (+25) and cash flow 1500 (+25), and with
\* Buyer's Market, High appreciation and age < 10 the score is 100, grade A+.
C14_ScoreIsSumOfTable ==
    Analysed =>
        LET a == analysis[1]
            m == a.financial_metrics
        IN  /\ a.investment_score.score = SumSeq(TableAwards)
            /\ (m.price = IntVal(500000) /\ m.monthly_rent = 3500) =>
                  /\ m.cap_rate = 840
                  /\ m.estimated_cash_flow = 150000
                  /\ TableAwards[1] = 25 /\ TableAwards[2] = 25
                  /\ (TableAwards[3] = 20 /\ TableAwards[4] = 15 /\ TableAwards[5] = 15)
                        => /\ a.investment_score.score = 100
                           /\ a.investment_score.grade = "A+"

C14_Witness ==
    /\ Analysed
    /\ analysis[1].financial_metrics.price = IntVal(500000)
    /\ analysis[1].financial_metrics.monthly_rent = 3500
    /\ analysis[1].market_analysis.market_status = "Buyer's Market"
    /\ analysis[1].market_analysis.appreciation_potential = "High"
    /\ analysis[1].investment_score.score = 100

\* the grade thresholds of the specification
TableGrade(score) ==
    IF score >= 80 THEN "A+" ELSE IF score >= 70 THEN "A"
    ELSE IF score >= 60 THEN "B+" ELSE IF score >= 50 THEN "B"
    ELSE IF score >= 40 THEN "C" ELSE "D"

\* the one recommendation that goes with each grade
RecommendationOfGrade ==
    [g \in {"A+", "A", "B+", "B", "C", "D"} |->
        CASE g = "A+" -> "Excellent investment opportunity"
          [] g = "A" -> "Strong investment potential"
          [] g = "B+" -> "Good investment with some caution"
          [] g = "B" -> "Fair investment opportunity"
          [] g = "C" -> "Marginal investment - proceed carefully"
          [] g = "D" -> "Poor investment - not recommended"]

\* C15: the grade is decided by the score alone, with the thresholds >= 80 A+,
\* >= 70 A, >= 60 B+, >= 50 B, >= 40 C, otherwise D, and every grade comes
\* with its one fixed recommendation.
C15_GradeFollowsScore ==
    Analysed =>
        LET i == analysis[1].investment_score
        IN  /\ i.grade = TableGrade(i.score)
            /\ i.recommendation = RecommendationOfGrade[i.grade]

C15_Witness ==
    /\ Analysed
    /\ analysis[1].investment_score.score = 80
    /\ analysis[1].investment_score.grade = "A+"

\* the labels of each factor, in the evaluation order of the factors
FactorLabels ==
    <<{"Excellent cap rate", "Good cap rate", "Fair cap rate"},
      {"Strong cash flow", "Positive cash flow", "Break-even cash flow"},
      {"Favorable market conditions", "Stable market conditions"},
      {"High appreciation potential", "Moderate appreciation potential"},
      {"New property", "Well-maintained age"}>>

\* C16: positive_factors holds labels of the factors in the order cap rate,
\* cash flow, market, appreciation, age: every entry is a label of a factor,
\* the factors of successive entries strictly increase (so at most one label
\* per factor and no reordering), and a factor has a label exactly when it
\* awarded points.
C16_FactorsInEvaluationOrder ==
    Analysed =>
        LET f == analysis[1].investment_score.positive_factors
            FactorOf(label) == CHOOSE k \in 1..5 : label \in FactorLabels[k]
        IN  /\ \A i \in 1..Len(f) : \E k \in 1..5 : f[i] \in FactorLabels[k]
            /\ \A i, j \in 1..Len(f) : i < j => FactorOf(f[i]) < FactorOf(f[j])
            /\ \A k \in 1..5 :
                  (TableAwards[k] > 0) <=> (\E i \in 1..Len(f) : f[i] \in FactorLabels[k])

C16_Witness ==
    /\ Analysed
    /\ analysis[1].investment_score.positive_factors =
          <<"Fair cap rate", "Favorable market conditions">>
    /\ analysis[1].financial_metrics.estimated_cash_flow = 0

\* C17: the investment score is a function of the cap rate, the cash flow,
\* the market status and the appreciation potential: the analysis shown and
\* any evaluation of a record that differs from the shown one at most in
\* yearBuilt, run in any year, that agree on these four agree on the score,
\* the grade, the recommendation and the positive factors.
C17_ScoreDeterminedByMetricsAndMarket ==
    Analysed =>
        \A yb \in YearBuiltValues, y \in Years :
            LET a == analysis[1]
                b == analyze_property([shown_record EXCEPT !.yearBuilt = yb], y)
            IN  (/\ ~Raised(b)
                 /\ b.financial_metrics.cap_rate = a.financial_metrics.cap_rate
                 /\ b.financial_metrics.estimated_cash_flow =
                        a.financial_metrics.estimated_cash_flow
                 /\ b.market_analysis.market_status = a.market_analysis.market_status
                 /\ b.market_analysis.appreciation_potential =
                        a.market_analysis.appreciation_potential)
                => b.investment_score = a.investment_score

\* C18: the appreciation potential is High for propertyAge < 10, Moderate for
\* propertyAge < 30 and Low otherwise, where propertyAge is currentYear -
\* yearBuilt and 20 when yearBuilt is missing or not a number; so a record
\* without yearBuilt is Moderate in every year.
C18_AppreciationFromPropertyAge ==
    Analysed =>
        LET age == PropertyAge(shown_record, clock_year)
            potential == analysis[1].market_analysis.appreciation_potential
        IN  /\ potential = IF age < 10 THEN "High"
                           ELSE IF age < 30 THEN "Moderate" ELSE "Low"
            /\ shown_record.yearBuilt = Missing => potential = "Moderate"

\* C19: when squareFootage is 0 or missing, the market analysis raises no
\* division error and reports price_per_sqft = 0 and "Buyer's Market",
\* whatever the price.
C19_NoSquareFootageNoDivision ==
    (analysis # None /\ shown_record.squareFootage \in {Missing, IntVal(0)}) =>
        /\ ~Raised(analysis[1])
        /\ analysis[1].market_analysis.price_per_sqft = 0
        /\ analysis[1].market_analysis.market_status = "Buyer's Market"

C19_Witness ==
    /\ Analysed
    /\ shown_record.squareFootage = IntVal(0)
    /\ shown_record.price = IntVal(500000)
    /\ analysis[1].market_analysis.price_per_sqft = 0

\* the record gives the calculator no price: neither price nor, failing that,
\* lastSalePrice holds a non-zero number
NoPrice(record) ==
    /\ record.price \in {Missing, IntVal(0)}
    /\ record.lastSalePrice \in {Missing, IntVal(0)}

\* the record gives no monthly rent: rentEstimate is missing or no dict, or
\* its rent is missing or 0
NoRent(record) ==
    \/ record.rentEstimate.kind # "dict"
    \/ record.rentEstimate.v.rent \in {Missing, IntVal(0)}

RoundsTo(h, n, d) == 2 * Abs(h * d - 100 * n) <= d

\* the record analysed has a price > 0 and a monthly rent > 0
PricedAndRented ==
    analysis # None /\ ~NoPrice(shown_record) /\ ~NoRent(shown_record)

\* annual_rent = 12 x rent, cap_rate = annual_rent / price x 100,
\* price_to_rent_ratio = price / annual_rent, estimated_cash_flow =
\* rent - 0.004 x price, roi_estimate = cash flow x 12 / (0.20 x price) x 100,
\* each rounded to 2 decimals
MetricsFollowFormulas ==
    /\ ~Raised(analysis[1])
    /\ LET m == analysis[1].financial_metrics
           price == m.price.i
           rent == shown_record.rentEstimate.v.rent.i
       IN  /\ price > 0 /\ rent > 0
           /\ m.monthly_rent = rent
           /\ m.annual_rent = 12 * rent
           /\ RoundsTo(m.cap_rate, m.annual_rent * 100, price)
           /\ RoundsTo(m.price_to_rent_ratio, price, m.annual_rent)
           \* rent - 0.004 x price = (250 x rent - price) / 250
           /\ RoundsTo(m.estimated_cash_flow, 250 * rent - price, 250)
           \* (rent - 0.004 x price) x 12 / (0.20 x price) x 100
           \*     = (250 x rent - price) x 24 / price
           /\ RoundsTo(m.roi_estimate, (250 * rent - price) * 24, price)

Sign(n) == IF n > 0 THEN 1 ELSE IF n < 0 THEN -1 ELSE 0

StatusOfHundredths(h) ==
    IF h > 20000 THEN "Hot Market"
    ELSE IF h > 10000 THEN "Balanced Market"
    ELSE "Buyer's Market"

\* C24 as stated: the market_status reported is the one the strict thresholds
\* (above 200 Hot, above 100 Balanced, otherwise Buyer's) give the
\* price_per_sqft reported in the same analysis.
C24_StatusAgreesWithReportedValue ==
    Analysed =>
        analysis[1].market_analysis.market_status
            = StatusOfHundredths(analysis[1].market_analysis.price_per_sqft)

\* C24 amended: the market_status is decided by the unrounded ratio price /
\* squareFootage with strict thresholds (exactly 200 is Balanced, exactly 100
\* is Buyer's); the price_per_sqft reported is that ratio rounded to 2
\* decimals, and gives the same status unless the ratio lies less than half a
\* hundredth above a threshold.
C24_StatusFollowsUnroundedRatio ==
    (Analysed /\ shown_record.squareFootage \notin {Missing, IntVal(0)}) =>
        LET price == IF shown_record.price = Missing THEN 0
                     ELSE shown_record.price.i
            sqft == shown_record.squareFootage.i
            ma == analysis[1].market_analysis
        IN  /\ ma.market_status =
                  IF price > 200 * sqft THEN "Hot Market"
                  ELSE IF price > 100 * sqft THEN "Balanced Market"
                  ELSE "Buyer's Market"
            /\ RoundsTo(ma.price_per_sqft, price, sqft)
            /\ ma.market_status # StatusOfHundredths(ma.price_per_sqft) =>
                  \/ 200 * sqft < price /\ 2 * 100 * (price - 200 * sqft) <= sqft
                  \/ 100 * sqft < price /\ 2 * 100 * (price - 100 * sqft) <= sqft

\* a price of exactly 200 per square foot was analysed
C24_Witness ==
    /\ Analysed
    /\ shown_record.price = IntVal(500000)
    /\ shown_record.squareFootage = IntVal(2500)
    /\ analysis[1].market_analysis.price_per_sqft = 20000
    /\ analysis[1].market_analysis.market_status = "Balanced Market"

\* C30: the market analysis uses the price the financial metrics use: for a
\* record without 'price' but with a positive lastSalePrice and a positive
\* squareFootage, price_per_sqft is lastSalePrice / squareFootage (rounded
\* to 2 decimals), market_status is the status of that ratio, and the score
\* holds the market points of that status.
C30_MarketUsesLastSalePrice ==
    (/\ Analysed
     /\ shown_record.price = Missing
     /\ shown_record.lastSalePrice \notin {Missing, IntVal(0)}
     /\ shown_record.squareFootage \notin {Missing, IntVal(0)}) =>
        LET price == shown_record.lastSalePrice.i
            sqft == shown_record.squareFootage.i
            ma == analysis[1].market_analysis
            status == IF price > 200 * sqft THEN "Hot Market"
                      ELSE IF price > 100 * sqft THEN "Balanced Market"
                      ELSE "Buyer's Market"
            factors == analysis[1].investment_score.positive_factors
            labels == {factors[i] : i \in DOMAIN factors}
        IN  /\ RoundsTo(ma.price_per_sqft, price, sqft)
            /\ ma.market_status = status
            /\ "Favorable market conditions" \in labels <=> status = "Buyer's Market"
            /\ "Stable market conditions" \in labels <=> status = "Balanced Market"

\* ------------------------------------------------------------------------
\* Expiry of the fetch cache
\* ------------------------------------------------------------------------
\* the entry of the key holds a record and its ttl has elapsed
ExpiredRecord(key) ==
    /\ key \in DOMAIN cache
    /\ Truthy(cache[key].value)
    /\ now - cache[key].stored_at >= 2 * HourSecs

\* C23: a cache entry is served only while less than 2 hours old; the first
\* fetch of a key whose record has expired is not served from the cache and
\* sends a provider request; when that fetch succeeds the entry of the key
\* becomes exactly the new record, stamped with the time of the new fetch,
\* which is later than the stamp of the record it replaces.
C23_ExpiredEntryIsRefetched ==
    [][\A s \in DOMAIN sess :
        LET l == sess[s].l
            after == sess'[s].l
        IN  /\ (l.pc = "call_fetch" /\ after.pc = "fetched" /\ after.hit) =>
                    /\ KeyOf(s) \in DOMAIN cache
                    /\ now - cache[KeyOf(s)].stored_at < 2 * HourSecs
                    /\ after.property_data = cache[KeyOf(s)].value
            /\ (l.pc = "call_fetch" /\ after.pc # "call_fetch"
                    /\ ExpiredRecord(KeyOf(s))) =>
                    /\ after.pc = "attempt"
                    /\ ~after.hit
            /\ (l.pc = "attempt" /\ after # l) =>
                    /\ after.reqs = l.reqs + 1
                    /\ SumOver(provider_calls'[wp_user[s]], Months)
                           = SumOver(provider_calls[wp_user[s]], Months) + 1
            /\ (l.pc = "attempt" /\ after.pc = "fetched"
                    /\ Truthy(after.property_data)
                    /\ KeyOf(s) \in DOMAIN cache) =>
                    /\ cache'[KeyOf(s)].value = after.property_data
                    /\ cache'[KeyOf(s)].stored_at = now
                    /\ after.property_data[1].fetch_timestamp = now
                    /\ Truthy(cache[KeyOf(s)].value) =>
                          after.property_data[1].fetch_timestamp
                              > cache[KeyOf(s)].value[1].fetch_timestamp
    ]_vars

\* a record fetched at time 0 expired while the user was away, and the next
\* search of the same address has just fetched and stored a new one
C23_Witness ==
    \E s \in DOMAIN sess :
        /\ sess[s].l.pc = "fetched"
        /\ ~sess[s].l.hit
        /\ sess[s].l.reqs = 1
        /\ Truthy(sess[s].l.property_data)
        /\ sess[s].l.property_data[1].fetch_timestamp = 2 * HourSecs
        /\ clears = 0
        /\ DOMAIN cache = {KeyOf(s)}
        /\ cache[KeyOf(s)].value = sess[s].l.property_data
        /\ BagCardinality(api_usage) = Limit

\* C25: only successful fetches populate the cache: every entry holds a
\* record, and a fetch answered from the cache returns a record, never the
\* failure result of an earlier fetch (NotFound, 401, another non-200 status,
\* missing configuration, exhausted retries), which is fetched anew instead.
C25_FailuresAreNotCached ==
    /\ \A key \in DOMAIN cache : Truthy(cache[key].value)
    /\ \A s \in DOMAIN sess :
          (sess[s].l.pc = "fetched" /\ sess[s].l.hit) =>
              /\ Truthy(sess[s].l.property_data)
              /\ sess[s].l.reqs = 0

\* C26: every usage row the search flow writes has query_type equal to the
\* string "property_search" and a metadata field that holds the search
\* metadata (full address, parsed address, search type, timestamp) the flow
\* passed to log_usage.
C26_RowCarriesTypeAndMetadata ==
    [][\A s \in DOMAIN sess :
        \A row \in BagToSet(api_usage') :
            (sess[s].l.pc = "fetched"
                /\ CopiesIn(row, api_usage') > CopiesIn(row, api_usage)) =>
                /\ row.query_type.kind = "str"
                /\ row.query_type = StrVal("property_search")
                /\ row.metadata =
                      SearchMetadata(sess[s].l.full_address, sess[s].l.parsed, now)
    ]_vars

\* C27: whatever the provider answers and whichever request exceptions are
\* raised, one fetch_property_data invocation sends at most 3 provider
\* requests and sleeps at most 2 times, one sleep between two requests; its
\* third request ends it; without configuration it ends with 0 requests.
C27_FetchIsBounded ==
    [][\A s \in DOMAIN sess :
        LET l == sess[s].l
            after == sess'[s].l
        IN  /\ after.reqs <= 3
            /\ Len(after.sleeps) <= 2
            /\ after.pc = "attempt" => Len(after.sleeps) = after.reqs
            /\ (l.pc = "attempt" /\ l.reqs = 2 /\ after # l) =>
                    after.pc = "fetched" /\ after.reqs = 3
            /\ (l.pc = "call_fetch" /\ after # l /\ ~secrets_ok) =>
                    after.pc = "fetched" /\ after.reqs = 0
            /\ ~secrets_ok => provider_calls' = provider_calls
    ]_vars

\* a fetch ended with its third request, which timed out, after two sleeps
C27_Witness ==
    \E s \in DOMAIN sess :
        /\ sess[s].l.pc = "fetched"
        /\ sess[s].l.reqs = 3
        /\ sess[s].l.sleeps = <<1, 2>>
        /\ sess[s].l.last_resp = "timeout"
        /\ ~sess[s].l.only_429
        /\ ~Truthy(sess[s].l.property_data)

\* ------------------------------------------------------------------------
\* Saved properties
\* ------------------------------------------------------------------------
\* C22: the properties table holds at most one row per (user_id,
\* property_hash), whatever save_property calls ran and however they
\* interleaved.
C22_OneRowPerUserAndHash ==
    \A r1 \in properties, r2 \in properties :
        (r1.user_id = r2.user_id /\ r1.property_hash = r2.property_hash)
            => r1 = r2

\* C28: a delete_property call removes only rows that have both the given id
\* and the caller's user_id (no row of another user goes) and leaves the
\* cache of fetch_property_data as it was, so a record fetched less than 2
\* hours before is still served without a provider request after the delete.
C28_DeleteLeavesFetchCache ==
    [][\A s \in DOMAIN sess :
        (sess[s].l.pc = "page" /\ sess'[s].l.outcome = "deleted") =>
            /\ properties' \subseteq properties
            /\ \A r \in properties \ properties' : r.user_id = wp_user[s]
            /\ cache' = cache
    ]_vars

\* C29: once save_property has returned True in a session, and the row it
\* wrote is still in the table as written, a list of the user's rows that
\* get_user_properties then serves the session from its cache (a list read
\* from the table, not the empty list a failed query leaves) contains that
\* row: a read that follows a successful write is never a stale cached list.
C29_ReadAfterSaveIsFresh ==
    \A s \in DOMAIN sess :
        LET p == portfolio[s]
        IN  (/\ p.pc = "listed"
             /\ p.from_cache
             /\ p.listing # {}
             /\ p.returned = Some(TRUE)
             /\ p.saved[1] \in properties) =>
                p.saved[1] \in p.listing

====
